---- MODULE Spec2Model ----
(***************************************************************************)
(* Model of the useSubmitter hook of react-form-submitter                  *)
(* (src/src/useSubmitter.ts, lines 1-174).                                 *)
(*                                                                         *)
(* JavaScript values are records tagged by their type in field t.          *)
(* Reference types (files, arrays) carry an object identity in field id.   *)
(* A form-data mapping is a function from a set of keys to values.         *)
(***************************************************************************)
EXTENDS Integers, Sequences, FiniteSets, TLC

\* Number of submitter calls that may be in flight at the same time.
MaxInFlight == 2

Slots == 1..MaxInFlight

----------------------------------------------------------------------------
\* JavaScript values

Undefined == [t |-> "undefined"]

Str(s) == [t |-> "string", s |-> s]

Num(n) == [t |-> "number", n |-> n]

Bool(b) == [t |-> "boolean", b |-> b]

File(id, name, size, type, lastModified) ==
  [t |-> "file", id |-> id, name |-> name, size |-> size, type |-> type,
   lastModified |-> lastModified]

Arr(id, items) == [t |-> "array", id |-> id, items |-> items]

Err(msg) == [t |-> "error", msg |-> msg]

Response(ok, status) == [t |-> "response", ok |-> ok, status |-> status]

\* ToBoolean: "", 0, false, null and undefined are falsy, everything else
\* (objects, files, responses, non-empty strings, non-zero numbers) is truthy.
Truthy(v) ==
  CASE v.t = "undefined" -> FALSE
    [] v.t = "string"    -> v.s # ""
    [] v.t = "number"    -> v.n # 0
    [] v.t = "boolean"   -> v.b
    [] OTHER             -> TRUE

\* The === operator: primitives by type and value, objects by identity.
StrictEquals(a, b) ==
  /\ a.t = b.t
  /\ CASE a.t = "undefined" -> TRUE
       [] a.t = "string"    -> a.s = b.s
       [] a.t = "number"    -> a.n = b.n
       [] a.t = "boolean"   -> a.b = b.b
       [] OTHER             -> a.id = b.id

\* value instanceof File
IsFile(v) == v.t = "file"

\* Property read m[k]: undefined when the object has no such key.
Get(m, k) == IF k \in DOMAIN m THEN m[k] ELSE Undefined

RECURSIVE JoinItems(_)
JoinItems(items) ==
  IF Len(items) = 0 THEN ""
  ELSE IF Len(items) = 1 THEN ToString(items[1])
  ELSE ToString(items[1]) \o "," \o JoinItems(Tail(items))

\* JSON.stringify for the value kinds that are not strings or files.
JSON_stringify(v) ==
  CASE v.t = "number"  -> ToString(v.n)
    [] v.t = "boolean" -> IF v.b THEN "true" ELSE "false"
    [] v.t = "array"   -> "[" \o JoinItems(v.items) \o "]"
    [] v.t = "string"  -> "\"" \o v.s \o "\""
    [] OTHER           -> "{}"

----------------------------------------------------------------------------
\* The pure helpers of the hook

is_same_files(file, default_file) ==
  /\ file.name = default_file.name
  /\ file.size = default_file.size
  /\ file.type = default_file.type
  /\ file.lastModified = default_file.lastModified

\* is_same_values without the guard on a falsy default value.
is_same_values_noFalsyGuard(value, default_value) ==
  IF IsFile(value)
  THEN IF ~IsFile(default_value) THEN FALSE
       ELSE is_same_files(value, default_value)
  ELSE StrictEquals(value, default_value)

is_same_values(value, default_value) ==
  IF ~Truthy(default_value) THEN FALSE
  ELSE IF IsFile(value)
       THEN IF ~IsFile(default_value) THEN FALSE
            ELSE is_same_files(value, default_value)
       ELSE StrictEquals(value, default_value)

\* form_value serializing strings as well.
form_value_stringifyStrings(value) ==
  IF IsFile(value) THEN value ELSE Str(JSON_stringify(value))

\* The value appended to the FormData for one entry.
form_value(value) ==
  IF value.t = "string" \/ IsFile(value) THEN value
  ELSE Str(JSON_stringify(value))

\* The entries of the FormData built from data.
to_form_data_without_default(data, default_data) ==
  LET kept == {key \in DOMAIN data :
                 \/ default_data = Undefined
                 \/ ~is_same_values(data[key], Get(default_data, key))}
  IN  [key \in kept |-> form_value(data[key])]

without_defaults(values, defaultValues) ==
  IF defaultValues = Undefined THEN values
  ELSE LET kept == {key \in DOMAIN values :
                      ~is_same_values(values[key], Get(defaultValues, key))}
       IN  [key \in kept |-> values[key]]

----------------------------------------------------------------------------
\* The hook instance and the submitter calls in flight

VARIABLES
  destination,      \* first argument of useSubmitter: endpoint string or function
  params,           \* second argument of useSubmitter (UseSubmitterParams)
  isFailed,         \* the useState flag returned by the hook
  pc,               \* per slot: where the submitter call of that slot stands
  data,             \* per slot: the data argument of the call
  transformedData,  \* per slot: the local transformedData
  dispatched,       \* per slot: what the call handed to fetch or to destination
  defaultPrevented, \* whether the latest call suppressed its event's default
  last,             \* record of the submitter call that settled most recently
  lastOutcome       \* outcome of the latest settled call that was not declined

vars == <<destination, params, isFailed, pc, data, transformedData,
          dispatched, defaultPrevented, last, lastOutcome>>

Endpoint == Str("https://example.com")

ServerAction == [t |-> "function"]

Confirmation == Str("Are you sure?")

\* Form values used by the pipeline runs.
NirAge(n) == [key \in {"name", "age"} |->
                IF key = "name" THEN Str("Nir") ELSE Num(n)]

RawDataSet == {NirAge(31)}

DefaultValuesSet == {Undefined, NirAge(30)}

\* RequestInit objects the caller may pass as fetchOptions.
FetchOptionsSet == {Undefined, [method |-> Str("PUT")]}

ParamsSet(defaults, options, hooks, confirmations) ==
  [defaultValues : defaults,
   method        : {Str("POST")},
   onSuccess     : hooks,
   onFailure     : hooks,
   onError       : hooks,
   transform     : BOOLEAN,
   fetchOptions  : options,
   confirmation  : confirmations,
   mutate        : hooks]

\* The record kept of a settled call.
NoCall ==
  [status |-> "none", data |-> Undefined, transformedData |-> Undefined,
   dispatched |-> Undefined, outcome |-> Undefined, submitOk |-> FALSE,
   response |-> Undefined, thrown |-> {}, calls |-> <<>>, promise |-> "none"]

InitCalls ==
  /\ isFailed = FALSE
  /\ pc = [s \in Slots |-> "idle"]
  /\ data = [s \in Slots |-> Undefined]
  /\ transformedData = [s \in Slots |-> Undefined]
  /\ dispatched = [s \in Slots |-> Undefined]
  /\ defaultPrevented = FALSE
  /\ last = NoCall
  /\ lastOutcome = "none"

Init ==
  /\ destination \in {Endpoint, ServerAction}
  /\ params \in ParamsSet(DefaultValuesSet, {Undefined}, BOOLEAN,
                         {Undefined, Confirmation})
  /\ InitCalls

\* The transform of the tests: adds one field to the data.
transform(d) ==
  [key \in DOMAIN d \cup {"extra"} |->
     IF key = "extra" THEN Str("yes") ELSE d[key]]

\* Object spread {...a, ...b}; spreading undefined adds nothing.
Spread(a, b) ==
  IF b = Undefined THEN a
  ELSE [key \in DOMAIN a \cup DOMAIN b |->
          IF key \in DOMAIN b THEN b[key] ELSE a[key]]

\* A slot is used by the call that starts while all lower slots are busy.
FreeSlot(s) == pc[s] = "idle" /\ \A r \in Slots : r < s => pc[r] # "idle"

----------------------------------------------------------------------------
\* submitter, up to its first await: preventDefault, transform, confirm

\* transform(data) threw: nothing catches it, the returned promise rejects.
TransformThrows(d) ==
  /\ last' = [NoCall EXCEPT !.status = "threw", !.data = d,
                            !.thrown = {"transform"}, !.promise = "rejected"]
  /\ lastOutcome' = "failed"
  /\ UNCHANGED <<isFailed, pc, data, transformedData, dispatched>>

\* Declined with the return placed inside the try block, so that the finally
\* block still runs.
Declined_runsFinally(d, td) ==
  /\ last' = [NoCall EXCEPT !.status = "declined", !.data = d,
                            !.transformedData = td, !.promise = "resolved"]
  /\ isFailed' = TRUE
  /\ UNCHANGED <<pc, data, transformedData, dispatched, lastOutcome>>

\* confirm(confirmation) returned false: the call returns at once.
Declined(d, td) ==
  /\ last' = [NoCall EXCEPT !.status = "declined", !.data = d,
                            !.transformedData = td, !.promise = "resolved"]
  /\ UNCHANGED <<isFailed, pc, data, transformedData, dispatched, lastOutcome>>

\* The call enters the try block and suspends at its first await.
EnterTry(s, d, td) ==
  /\ pc' = [pc EXCEPT ![s] = "preparing"]
  /\ data' = [data EXCEPT ![s] = d]
  /\ transformedData' = [transformedData EXCEPT ![s] = td]
  /\ UNCHANGED <<isFailed, dispatched, last, lastOutcome>>

\* submitter(d, event): event says whether an event was passed, throws whether
\* the configured transform throws on d, answer what confirm() returns.
\* The inputs that make a difference under the configured params.
ThrowsSet == IF params.transform THEN BOOLEAN ELSE {FALSE}

AnswerSet == IF Truthy(params.confirmation) THEN BOOLEAN ELSE {TRUE}

Submit(s, d, event, throws, answer) ==
  /\ FreeSlot(s)
  /\ throws \in ThrowsSet
  /\ answer \in AnswerSet
  /\ defaultPrevented' = event
  /\ IF params.transform /\ throws
     THEN TransformThrows(d)
     ELSE LET td == IF params.transform THEN transform(d) ELSE d
          IN  IF Truthy(params.confirmation) /\ ~answer
              THEN Declined(d, td)
              ELSE EnterTry(s, d, td)
  /\ UNCHANGED <<destination, params>>

----------------------------------------------------------------------------
\* The diff is computed and handed to fetch or to the destination function

FetchCall(td) ==
  [to |-> "fetch", input |-> destination,
   init |-> Spread([method |-> params.method,
                    body |-> to_form_data_without_default(td, params.defaultValues)],
                   params.fetchOptions)]

DestinationCall(td) ==
  [to |-> "destination", arg |-> without_defaults(td, params.defaultValues)]

Prepare(s) ==
  /\ pc[s] = "preparing"
  /\ dispatched' = [dispatched EXCEPT ![s] =
                      IF destination.t = "string"
                      THEN FetchCall(transformedData[s])
                      ELSE DestinationCall(transformedData[s])]
  /\ pc' = [pc EXCEPT ![s] = "awaiting"]
  /\ UNCHANGED <<destination, params, isFailed, data, transformedData,
                 defaultPrevented, last, lastOutcome>>

----------------------------------------------------------------------------
\* The awaited fetch or destination settles; the rest of try, catch, finally

Resolve(v) == [kind |-> "resolve", value |-> v]

Reject(e) == [kind |-> "reject", value |-> e]

\* What fetch may settle with.
FetchOutcomes ==
  {Resolve(Response(TRUE, 200)), Resolve(Response(FALSE, 400)),
   Reject(Err("Network error"))}

\* What the destination function may settle with.
DestinationOutcomes ==
  {Resolve(Bool(TRUE)), Resolve(Bool(FALSE)), Reject(Err("Bad values"))}

Outcomes == IF destination.t = "string" THEN FetchOutcomes ELSE DestinationOutcomes

Callbacks == {"onSuccess", "onFailure", "onError", "mutate"}

Call(cb, args) == [cb |-> cb, args |-> args]

\* The error a throwing callback raises.
Thrown(cb) == Err(cb \o " threw")

\* Rest of the try block once the await settled with out. th is the set of
\* callbacks that throw when invoked. exception is what the block threw.
TryBlock(td, out, th, flag) ==
  LET rejected == out.kind = "reject"
      response == IF ~rejected /\ destination.t = "string"
                  THEN out.value ELSE Undefined
      submitOk == /\ ~rejected
                  /\ IF destination.t = "string"
                     THEN Truthy(response) /\ response.ok
                     ELSE Truthy(out.value)
      failure  == ~rejected /\ ~submitOk /\ params.onFailure
      throws   == failure /\ "onFailure" \in th
  IN  [submitOk  |-> submitOk,
       response  |-> response,
       isFailed  |-> flag,
       calls     |-> IF failure THEN <<Call("onFailure", <<td, response>>)>>
                     ELSE <<>>,
       exception |-> IF rejected THEN out.value
                     ELSE IF throws THEN Thrown("onFailure") ELSE Undefined,
       thrown    |-> IF rejected THEN {"dispatch"}
                     ELSE IF throws THEN {"onFailure"} ELSE {},
       escaped   |-> Undefined]

\* catch (e) { if (onError) onError(e); }
CatchBlock(f, th) ==
  IF f.exception = Undefined \/ ~params.onError THEN f
  ELSE [f EXCEPT !.calls = Append(@, Call("onError", <<f.exception>>)),
                 !.thrown = IF "onError" \in th THEN @ \cup {"onError"} ELSE @,
                 !.escaped = IF "onError" \in th THEN Thrown("onError") ELSE @]

\* FinallyBlock handing mutate the diff instead of the full data.
FinallyBlock_mutateDiff(f, td, th) ==
  IF f.submitOk
  THEN LET t1 == params.onSuccess /\ "onSuccess" \in th
           c1 == IF params.onSuccess
                 THEN Append(f.calls, Call("onSuccess", <<td, f.response>>))
                 ELSE f.calls
           t2 == ~t1 /\ params.mutate /\ "mutate" \in th
           c2 == IF ~t1 /\ params.mutate
                 THEN Append(c1, Call("mutate",
                        <<without_defaults(td, params.defaultValues)>>))
                 ELSE c1
       IN  [f EXCEPT !.isFailed = FALSE,
                     !.calls = c2,
                     !.thrown = @ \cup (IF t1 THEN {"onSuccess"} ELSE {})
                                  \cup (IF t2 THEN {"mutate"} ELSE {}),
                     !.escaped = IF t1 THEN Thrown("onSuccess")
                                 ELSE IF t2 THEN Thrown("mutate") ELSE @]
  ELSE [f EXCEPT !.isFailed = TRUE]

\* FinallyBlock setting the flag only when no exception was caught.
FinallyBlock_flagOnlyOnFailure(f, td, th) ==
  IF f.submitOk
  THEN LET t1 == params.onSuccess /\ "onSuccess" \in th
           c1 == IF params.onSuccess
                 THEN Append(f.calls, Call("onSuccess", <<td, f.response>>))
                 ELSE f.calls
           t2 == ~t1 /\ params.mutate /\ "mutate" \in th
           c2 == IF ~t1 /\ params.mutate
                 THEN Append(c1, Call("mutate", <<td>>))
                 ELSE c1
       IN  [f EXCEPT !.isFailed = FALSE,
                     !.calls = c2,
                     !.thrown = @ \cup (IF t1 THEN {"onSuccess"} ELSE {})
                                  \cup (IF t2 THEN {"mutate"} ELSE {}),
                     !.escaped = IF t1 THEN Thrown("onSuccess")
                                 ELSE IF t2 THEN Thrown("mutate") ELSE @]
  ELSE IF f.exception = Undefined THEN [f EXCEPT !.isFailed = TRUE] ELSE f

\* finally { ... }: an exception thrown here replaces a pending one.
FinallyBlock(f, td, th) ==
  IF f.submitOk
  THEN LET t1 == params.onSuccess /\ "onSuccess" \in th
           c1 == IF params.onSuccess
                 THEN Append(f.calls, Call("onSuccess", <<td, f.response>>))
                 ELSE f.calls
           t2 == ~t1 /\ params.mutate /\ "mutate" \in th
           c2 == IF ~t1 /\ params.mutate
                 THEN Append(c1, Call("mutate", <<td>>))
                 ELSE c1
       IN  [f EXCEPT !.isFailed = FALSE,
                     !.calls = c2,
                     !.thrown = @ \cup (IF t1 THEN {"onSuccess"} ELSE {})
                                  \cup (IF t2 THEN {"mutate"} ELSE {}),
                     !.escaped = IF t1 THEN Thrown("onSuccess")
                                 ELSE IF t2 THEN Thrown("mutate") ELSE @]
  ELSE [f EXCEPT !.isFailed = TRUE]

\* The dispatch reported success: an ok response, or the value true.
ExplicitSuccess(out) ==
  /\ out.kind = "resolve"
  /\ IF out.value.t = "response" THEN out.value.ok ELSE out.value = Bool(TRUE)

\* The callbacks that can throw are the configured ones.
ThrowingSets == SUBSET {cb \in Callbacks : params[cb]}

Resume(s, out, th) ==
  /\ pc[s] = "awaiting"
  /\ out \in Outcomes
  /\ th \in ThrowingSets
  /\ LET td == transformedData[s]
         f  == FinallyBlock(CatchBlock(TryBlock(td, out, th, isFailed), th), td, th)
     IN  /\ isFailed' = f.isFailed
         /\ last' = [status |-> "settled", data |-> data[s],
                     transformedData |-> td, dispatched |-> dispatched[s],
                     outcome |-> out, submitOk |-> f.submitOk,
                     response |-> f.response, thrown |-> f.thrown,
                     calls |-> f.calls,
                     promise |-> IF f.escaped = Undefined THEN "resolved"
                                 ELSE "rejected"]
         /\ lastOutcome' = IF ExplicitSuccess(out) THEN "ok" ELSE "failed"
  /\ pc' = [pc EXCEPT ![s] = "idle"]
  /\ data' = [data EXCEPT ![s] = Undefined]
  /\ transformedData' = [transformedData EXCEPT ![s] = Undefined]
  /\ dispatched' = [dispatched EXCEPT ![s] = Undefined]
  /\ UNCHANGED <<destination, params, defaultPrevented>>

----------------------------------------------------------------------------

Next ==
  \/ \E s \in Slots, d \in RawDataSet, event, throws, answer \in BOOLEAN :
       Submit(s, d, event, throws, answer)
  \/ \E s \in Slots : Prepare(s)
  \/ \E s \in Slots, out \in FetchOutcomes \cup DestinationOutcomes,
        th \in SUBSET Callbacks :
       Resume(s, out, th)

Spec == Init /\ [][Next]_vars

----------------------------------------------------------------------------
\* One call at a time over a wide range of form data and default values

FileA == File(1, "a.png", 10, "image/png", 100)

\* Another File object with the metadata of FileA.
FileA2 == File(2, "a.png", 10, "image/png", 100)

FileName == File(3, "b.png", 10, "image/png", 100)

FileSize == File(4, "a.png", 11, "image/png", 100)

FileType == File(5, "a.png", 10, "image/gif", 100)

FileTime == File(6, "a.png", 10, "image/png", 101)

Arr1 == Arr(7, <<1, 2>>)

\* Another array object with the items of Arr1.
Arr2 == Arr(8, <<1, 2>>)

NameValues == {Str("Nir"), Str(""), FileA, FileA2, FileName, FileSize,
               FileType, FileTime, Arr1, Arr2}

MapOf(keys, n, a) == [key \in keys |-> IF key = "name" THEN n ELSE a]

Mappings(N, A) ==
  {MapOf(keys, n, a) : keys \in SUBSET {"name", "age"}, n \in N, a \in A}

DiffDataSet == Mappings(NameValues, {Num(30), Num(31)})

DiffDefaultValuesSet == {Undefined} \cup Mappings(NameValues, {Num(30)})

InitDiff ==
  /\ destination \in {Endpoint, ServerAction}
  /\ params \in ParamsSet(DiffDefaultValuesSet, FetchOptionsSet, {FALSE},
                         {Undefined})
  /\ InitCalls

NextDiff ==
  \/ \E d \in DiffDataSet :
       last.status = "none" /\ Submit(1, d, FALSE, FALSE, TRUE)
  \/ Prepare(1)
  \/ \E out \in FetchOutcomes \cup DestinationOutcomes : Resume(1, out, {})

SpecDiff == InitDiff /\ [][NextDiff]_vars

----------------------------------------------------------------------------
\* Vocabulary of the properties

\* The invocations of callback cb made by the call that settled last.
CallsOf(cb) == SelectSeq(last.calls, LAMBDA c : c.cb = cb)

Invoked(cb) == Len(CallsOf(cb))

\* TransformedData of the spec for raw data d.
Transformed(d) == IF params.transform THEN transform(d) ELSE d

\* The response argument of the spec for a dispatch that settled with out.
ResponseOrUndefined(out) ==
  IF destination = Endpoint THEN out.value ELSE Undefined

ExplicitFailure(out) ==
  out \in {Resolve(Response(FALSE, 400)), Resolve(Bool(FALSE))}

PassedGate == last.status = "settled"

AllConfigured == params.onSuccess /\ params.onFailure /\ params.onError

\* An exception was caught by the catch block of the call that settled last.
Caught == last.thrown \cap {"dispatch", "onFailure"} # {}

\* Equality of the spec, section 4.3, for a truthy baseline value.
SpecEqual(v, b) ==
  IF IsFile(v) /\ IsFile(b)
  THEN /\ v.name = b.name /\ v.size = b.size
       /\ v.type = b.type /\ v.lastModified = b.lastModified
  ELSE v = b

\* The keys of the SubmissionDiff of the spec.
DiffKeys(td, baseline) ==
  IF baseline = Undefined THEN DOMAIN td
  ELSE {k \in DOMAIN td :
          ~(Truthy(Get(baseline, k)) /\ SpecEqual(td[k], Get(baseline, k)))}

----------------------------------------------------------------------------
\* C1: for a call that passed the confirmation gate, with onSuccess,
\* onFailure and onError all configured, at most one of the three is invoked
\* and at most once; without an exception exactly one of onSuccess and
\* onFailure is invoked; when an exception is caught neither of the two is.
C1_AtMostOneCallback ==
  (PassedGate /\ AllConfigured) =>
    /\ Invoked("onSuccess") + Invoked("onFailure") + Invoked("onError") <= 1
    /\ (last.thrown = {} => Invoked("onSuccess") + Invoked("onFailure") = 1)
    /\ (Caught => Invoked("onSuccess") = 0 /\ Invoked("onFailure") = 0)

\* C2: the promise returned by submitter never rejects.
C2_NeverRejects == last.promise # "rejected"

\* C3: when a confirmation message is configured and the user declines, the
\* call has no effect: nothing is handed to fetch or to the destination, no
\* callback is invoked, and the failed flag keeps its value.
C3_DeclineHasNoEffect ==
  [][\A s \in Slots, d \in RawDataSet, event \in BOOLEAN :
       Submit(s, d, event, FALSE, FALSE) =>
          /\ isFailed' = isFailed
          /\ dispatched' = dispatched
          /\ pc' = pc
          /\ last'.status = "declined"
          /\ last'.dispatched = Undefined
          /\ last'.calls = <<>>]_vars

\* A call was declined while the flag was set by an earlier failed call.
C3_Witness ==
  /\ last.status = "declined"
  /\ isFailed
  /\ lastOutcome = "failed"

\* C4: when dispatch succeeds and nothing throws, the flag is false,
\* onSuccess is invoked once with (TransformedData, response or undefined),
\* mutate once with the full TransformedData, onFailure and onError not.
C4_SuccessPath ==
  (PassedGate /\ ExplicitSuccess(last.outcome) /\ last.thrown = {}) =>
    /\ isFailed = FALSE
    /\ params.onSuccess =>
         CallsOf("onSuccess") =
           <<Call("onSuccess", <<Transformed(last.data),
                                 ResponseOrUndefined(last.outcome)>>)>>
    /\ params.mutate =>
         CallsOf("mutate") = <<Call("mutate", <<Transformed(last.data)>>)>>
    /\ Invoked("onFailure") = 0
    /\ Invoked("onError") = 0

C4_Witness ==
  /\ PassedGate
  /\ ExplicitSuccess(last.outcome)
  /\ last.thrown = {}
  /\ params.onSuccess /\ params.mutate /\ params.transform
  /\ params.defaultValues # Undefined
  /\ Len(last.calls) = 2

\* C5: when dispatch completes without an exception but reports non-success,
\* the flag is true, onFailure is invoked once with (TransformedData,
\* response or undefined), and onSuccess, mutate and onError are not invoked.
C5_FailurePath ==
  (PassedGate /\ ExplicitFailure(last.outcome)) =>
    /\ isFailed = TRUE
    /\ params.onFailure =>
         CallsOf("onFailure") =
           <<Call("onFailure", <<Transformed(last.data),
                                 ResponseOrUndefined(last.outcome)>>)>>
    /\ Invoked("onSuccess") = 0
    /\ Invoked("mutate") = 0
    /\ Invoked("onError") = 0

\* C6: when fetch or the destination throws or rejects, onError is invoked
\* once with the thrown error, onSuccess, onFailure and mutate are not
\* invoked, and the flag is true once the call has completed.
C6_ErrorPath ==
  (PassedGate /\ last.outcome.kind = "reject") =>
    /\ params.onError =>
         CallsOf("onError") = <<Call("onError", <<last.outcome.value>>)>>
    /\ Invoked("onSuccess") = 0
    /\ Invoked("onFailure") = 0
    /\ Invoked("mutate") = 0
    /\ isFailed = TRUE

C6_Witness ==
  /\ PassedGate
  /\ last.outcome.kind = "reject"
  /\ params.onError /\ params.onSuccess /\ params.onFailure /\ params.mutate
  /\ Invoked("onError") = 1
  /\ isFailed

\* C7: an exception raised by transform is caught: onError is invoked with
\* it, and neither onSuccess nor onFailure is invoked.
C7_TransformErrorCaught ==
  ("transform" \in last.thrown) =>
    /\ last.promise # "rejected"
    /\ params.onError =>
         CallsOf("onError") = <<Call("onError", <<Thrown("transform")>>)>>
    /\ Invoked("onSuccess") = 0
    /\ Invoked("onFailure") = 0

AllIdle == \A s \in Slots : pc[s] = "idle"

\* C10: the flag starts false; once all calls have completed it tells the
\* outcome of the call that completed last among the calls not declined
\* (false iff that call's dispatch explicitly succeeded); it becomes false
\* only by a call whose dispatch explicitly succeeded.
C10_FlagFollowsLastCompletion ==
  /\ lastOutcome = "none" => isFailed = FALSE
  /\ (AllIdle /\ lastOutcome # "none") => (isFailed <=> lastOutcome = "failed")
  /\ (PassedGate /\ ~isFailed) => ExplicitSuccess(last.outcome)

----------------------------------------------------------------------------
\* The variant of the hook with a reset hook (lines 176-368). Its options
\* are spelled default_values, on_success, on_error and fetch_options; they
\* are kept in the fields defaultValues, onSuccess, onError and fetchOptions
\* of params, next to the field reset. It has no onFailure. Up to the
\* dispatch its submitter is the code of Submit, and its try and catch
\* blocks are those of TryBlock and CatchBlock without the onFailure line.

\* Form data that changes the age and carries no name.
AgeOnly == [key \in {"age"} |-> Num(31)]

ResetDataSet == {AgeOnly}

\* params extended by the reset option.
WithReset(p, reset) ==
  [key \in DOMAIN p \cup {"reset"} |-> IF key = "reset" THEN reset ELSE p[key]]

ParamsResetSet ==
  {WithReset(p, reset) :
     p \in {q \in ParamsSet(DefaultValuesSet, {Undefined}, BOOLEAN,
                            {Undefined, Confirmation}) : ~q.onFailure},
     reset \in BOOLEAN}

InitReset ==
  /\ destination \in {Endpoint, ServerAction}
  /\ params \in ParamsResetSet
  /\ InitCalls

\* Object.entries visits the keys in insertion order.
KeyOrder == <<"name", "age", "extra">>

Entries(m) == SelectSeq(KeyOrder, LAMBDA key : key \in DOMAIN m)

\* The loop of to_form_data_without_default and of without_defaults before
\* its first comparison: the keys still to visit and the keys kept so far.
LoopStart(td) == [to |-> "loop", rest |-> Entries(td), kept |-> {}]

LoopOf(s) ==
  IF dispatched[s] = Undefined THEN LoopStart(transformedData[s])
  ELSE dispatched[s]

\* One await is_same_values(value, default_values[key]) of the loop. The
\* default value is read when the comparison is made, so a baseline changed
\* by another call between two comparisons is seen by the later one.
Compare(s) ==
  /\ pc[s] = "preparing"
  /\ params.defaultValues # Undefined
  /\ LoopOf(s).rest # <<>>
  /\ LET loop == LoopOf(s)
         key  == Head(loop.rest)
         same == is_same_values(transformedData[s][key],
                                Get(params.defaultValues, key))
     IN  dispatched' = [dispatched EXCEPT ![s] =
                          [to |-> "loop", rest |-> Tail(loop.rest),
                           kept |-> IF same THEN loop.kept
                                    ELSE loop.kept \cup {key}]]
  /\ UNCHANGED <<destination, params, isFailed, pc, data, transformedData,
                 defaultPrevented, last, lastOutcome>>

\* The loop is over: the kept entries go to fetch or to the destination.
Dispatch(s) ==
  /\ pc[s] = "preparing"
  /\ params.defaultValues = Undefined \/ LoopOf(s).rest = <<>>
  /\ LET td   == transformedData[s]
         kept == IF params.defaultValues = Undefined THEN DOMAIN td
                 ELSE LoopOf(s).kept
     IN  dispatched' = [dispatched EXCEPT ![s] =
           IF destination.t = "string"
           THEN [to |-> "fetch", input |-> destination,
                 init |-> Spread([method |-> params.method,
                                  body |-> [key \in kept |-> form_value(td[key])]],
                                 params.fetchOptions)]
           ELSE [to |-> "destination", arg |-> [key \in kept |-> td[key]]]]
  /\ pc' = [pc EXCEPT ![s] = "awaiting"]
  /\ UNCHANGED <<destination, params, isFailed, data, transformedData,
                 defaultPrevented, last, lastOutcome>>

\* value == undefined
IsUndefined(v) == v.t = "undefined"

\* mutate_data: arg is what mutate receives, defaults what default_values
\* holds afterwards. new_data is default_values itself, not a copy.
mutate_data(td, default_values) ==
  IF default_values = Undefined THEN [arg |-> td, defaults |-> default_values]
  ELSE LET new_data ==
             [key \in DOMAIN default_values |->
                IF IsUndefined(default_values[key]) \/ IsUndefined(Get(td, key))
                THEN Get(td, key)
                ELSE default_values[key]]
       IN  [arg |-> new_data, defaults |-> new_data]

CallbacksReset == {"onSuccess", "onError", "mutate", "reset"}

\* FinallyBlockReset handing reset the transformed data after a failure.
FinallyBlockReset_resetTransformed(f, d, td, th) ==
  IF f.submitOk
  THEN LET t1 == params.reset /\ "reset" \in th
           c1 == IF params.reset THEN Append(f.calls, Call("reset", <<>>))
                 ELSE f.calls
           t2 == ~t1 /\ params.onSuccess /\ "onSuccess" \in th
           c2 == IF ~t1 /\ params.onSuccess
                 THEN Append(c1, Call("onSuccess", <<td, f.response>>))
                 ELSE c1
           m  == ~t1 /\ ~t2 /\ params.mutate
           md == mutate_data(td, params.defaultValues)
           c3 == IF m THEN Append(c2, Call("mutate", <<md.arg>>)) ELSE c2
       IN  [submitOk |-> f.submitOk, response |-> f.response,
            isFailed |-> FALSE, calls |-> c3,
            thrown   |-> f.thrown \cup (IF t1 THEN {"reset"} ELSE {})
                           \cup (IF t2 THEN {"onSuccess"} ELSE {})
                           \cup (IF m /\ "mutate" \in th THEN {"mutate"} ELSE {}),
            escaped  |-> IF t1 THEN Thrown("reset")
                         ELSE IF t2 THEN Thrown("onSuccess") ELSE f.escaped,
            defaults |-> IF m THEN md.defaults ELSE params.defaultValues]
  ELSE LET t1 == params.reset /\ "reset" \in th
       IN  [submitOk |-> f.submitOk, response |-> f.response,
            isFailed |-> TRUE,
            calls    |-> IF params.reset
                         THEN Append(f.calls, Call("reset", <<td>>))
                         ELSE f.calls,
            thrown   |-> f.thrown \cup (IF t1 THEN {"reset"} ELSE {}),
            escaped  |-> IF t1 THEN Thrown("reset") ELSE f.escaped,
            defaults |-> params.defaultValues]

\* finally of the variant. d is the raw data, td the transformed data. The
\* promise of mutate_data is not awaited: what mutate throws is not rethrown.
FinallyBlockReset(f, d, td, th) ==
  IF f.submitOk
  THEN LET t1 == params.reset /\ "reset" \in th
           c1 == IF params.reset THEN Append(f.calls, Call("reset", <<>>))
                 ELSE f.calls
           t2 == ~t1 /\ params.onSuccess /\ "onSuccess" \in th
           c2 == IF ~t1 /\ params.onSuccess
                 THEN Append(c1, Call("onSuccess", <<td, f.response>>))
                 ELSE c1
           m  == ~t1 /\ ~t2 /\ params.mutate
           md == mutate_data(td, params.defaultValues)
           c3 == IF m THEN Append(c2, Call("mutate", <<md.arg>>)) ELSE c2
       IN  [submitOk |-> f.submitOk, response |-> f.response,
            isFailed |-> FALSE, calls |-> c3,
            thrown   |-> f.thrown \cup (IF t1 THEN {"reset"} ELSE {})
                           \cup (IF t2 THEN {"onSuccess"} ELSE {})
                           \cup (IF m /\ "mutate" \in th THEN {"mutate"} ELSE {}),
            escaped  |-> IF t1 THEN Thrown("reset")
                         ELSE IF t2 THEN Thrown("onSuccess") ELSE f.escaped,
            defaults |-> IF m THEN md.defaults ELSE params.defaultValues]
  ELSE LET t1 == params.reset /\ "reset" \in th
       IN  [submitOk |-> f.submitOk, response |-> f.response,
            isFailed |-> TRUE,
            calls    |-> IF params.reset
                         THEN Append(f.calls, Call("reset", <<d>>))
                         ELSE f.calls,
            thrown   |-> f.thrown \cup (IF t1 THEN {"reset"} ELSE {}),
            escaped  |-> IF t1 THEN Thrown("reset") ELSE f.escaped,
            defaults |-> params.defaultValues]

ThrowingSetsReset == SUBSET {cb \in CallbacksReset : params[cb]}

ResumeReset(s, out, th) ==
  /\ pc[s] = "awaiting"
  /\ out \in Outcomes
  /\ th \in ThrowingSetsReset
  /\ LET td == transformedData[s]
         f  == FinallyBlockReset(CatchBlock(TryBlock(td, out, th, isFailed), th),
                                 data[s], td, th)
     IN  /\ isFailed' = f.isFailed
         /\ params' = [params EXCEPT !.defaultValues = f.defaults]
         /\ last' = [status |-> "settled", data |-> data[s],
                     transformedData |-> td, dispatched |-> dispatched[s],
                     outcome |-> out, submitOk |-> f.submitOk,
                     response |-> f.response, thrown |-> f.thrown,
                     calls |-> f.calls,
                     promise |-> IF f.escaped = Undefined THEN "resolved"
                                 ELSE "rejected"]
         /\ lastOutcome' = IF ExplicitSuccess(out) THEN "ok" ELSE "failed"
  /\ pc' = [pc EXCEPT ![s] = "idle"]
  /\ data' = [data EXCEPT ![s] = Undefined]
  /\ transformedData' = [transformedData EXCEPT ![s] = Undefined]
  /\ dispatched' = [dispatched EXCEPT ![s] = Undefined]
  /\ UNCHANGED <<destination, defaultPrevented>>

\* The calls come from the form library's handleSubmit, which passes the event.
NextReset ==
  \/ \E s \in Slots, d \in ResetDataSet, throws, answer \in BOOLEAN :
       Submit(s, d, TRUE, throws, answer)
  \/ \E s \in Slots : Compare(s)
  \/ \E s \in Slots : Dispatch(s)
  \/ \E s \in Slots, out \in FetchOutcomes \cup DestinationOutcomes,
        th \in SUBSET CallbacksReset :
       ResumeReset(s, out, th)

SpecReset == InitReset /\ [][NextReset]_vars

----------------------------------------------------------------------------
\* The merge rule of the spec, section 4.5: for every key of the baseline
\* the newly submitted value if there is one, else the baseline value.
SpecMerge(td, baseline) ==
  IF baseline = Undefined THEN td
  ELSE [k \in DOMAIN baseline |-> IF k \in DOMAIN td THEN td[k] ELSE baseline[k]]

\* C11: in the variant with baseline refresh, after a successful submission
\* with mutate configured, mutate receives the merge of the baseline with
\* the transformed data (for every key of the baseline the submitted value
\* if present, else the baseline value), and the full transformed data when
\* no baseline is configured.
C11_MutateReceivesMerge ==
  [][\A s \in Slots, out \in FetchOutcomes \cup DestinationOutcomes :
       (ResumeReset(s, out, {}) /\ ExplicitSuccess(out) /\ params.mutate) =>
          SelectSeq(last'.calls, LAMBDA c : c.cb = "mutate") =
            <<Call("mutate", <<SpecMerge(Transformed(data[s]),
                                         params.defaultValues)>>)>>]_vars

\* C12: no submitter call changes the value stored at any key of the
\* baseline supplied at construction, so every call diffs against the same
\* baseline.
C12_BaselineReadOnly ==
  [][params'.defaultValues = params.defaultValues]_vars

\* C13: with a reset hook configured, a call that passed the confirmation
\* gate invokes reset exactly once, without arguments when dispatch
\* explicitly succeeded and with the raw data when it explicitly failed; a
\* declined call does not invoke reset.
C13_ResetOncePerCall ==
  /\ (PassedGate /\ params.reset) =>
       /\ Invoked("reset") = 1
       /\ ExplicitSuccess(last.outcome) =>
            CallsOf("reset") = <<Call("reset", <<>>)>>
       /\ ExplicitFailure(last.outcome) =>
            CallsOf("reset") = <<Call("reset", <<last.data>>)>>
  /\ last.status = "declined" => Invoked("reset") = 0

\* A call with a transform configured failed explicitly: reset received the
\* raw data, which differs from the transformed data.
C13_Witness ==
  /\ PassedGate
  /\ params.reset /\ params.transform
  /\ ExplicitFailure(last.outcome)
  /\ last.transformedData # last.data
  /\ CallsOf("reset") = <<Call("reset", <<AgeOnly>>)>>

====
